---- MODULE Spec2Model ----
(***************************************************************************)
(* Model of src/app.py of SportsCSV: the interval classifier               *)
(* grouped_behavior_with_totals and the Streamlit batch driver around it.  *)
(*                                                                         *)
(* Units.  A duration is an integer number of hundredths of a second, a    *)
(* Minutes value an integer number of thousandths of a minute, a Steps per *)
(* Minute value an integer number of hundredths of a step per minute, and  *)
(* a timestamp an integer number of milliseconds since the epoch.  The     *)
(* roundings of the code (round(3), round(2), // 10**9) are computed on    *)
(* these integers.  The durations drawn below are even numbers of          *)
(* hundredths, so duration/60 never lies exactly between two thousandths   *)
(* and the float rounding of the code is the arithmetic rounding here.     *)
(***************************************************************************)
EXTENDS Integers, Sequences, FiniteSets, TLC

VARIABLES
    lipa_max,         \* sidebar number_input "Upper limit for LPA"
    mpa_max,          \* sidebar number_input "Upper limit for MIVA"
    legacy_apply,     \* the installed pandas: DataFrame.apply(axis=1) on an
                      \* empty frame hands back a DataFrame (TRUE) or an empty
                      \* Series (FALSE)
    input_file,       \* the CSV handed to grouped_behavior_with_totals
    result,           \* what that call returned or raised
    uploaded_zip,     \* st.file_uploader: None or the list os.walk will yield
    next_file,        \* position of the walk in the batch loop
    processed_files,  \* counter of the batch loop
    errors,           \* list of (file, str(e)) of the batch loop
    out_zip,          \* members written to the output archive
    calls,            \* history: every call of grouped_behavior_with_totals
    report,           \* what st.success / st.warning / st.download_button show
    pc                \* position of the script

vars == <<lipa_max, mpa_max, legacy_apply, input_file, result, uploaded_zip,
          next_file, processed_files, errors, out_zip, calls, report, pc>>

(***************************************************************************)
(* Bounds of the model and constants of the program.                       *)
(***************************************************************************)
MaxRows == 3
MaxBadHeaderRows == 1
MaxFiles == 3
MaxBadRun == 11

DefaultLipa == 100
DefaultMpa == 130
ErrCap == 10

(***************************************************************************)
(* Cells of the raw table, as read_csv delivers them.                      *)
(***************************************************************************)
Num(n) == [k |-> "num", v |-> n]
Stamp(ms) == [k |-> "time", v |-> ms]
Text == [k |-> "text", v |-> 0]
NaN == [k |-> "nan", v |-> 0]
NaT == [k |-> "nat", v |-> 0]
Inf == [k |-> "inf", v |-> 0]

Row(t, d, e, c) == [time |-> t, dur |-> d, etype |-> e, count |-> c]

RequiredColumns ==
    {"Time(approx)", "Duration (s)", "Event Type", "Cumulative Step Count"}

(***************************************************************************)
(* Arithmetic helpers.                                                     *)
(***************************************************************************)
RECURSIVE SumSeq(_)
SumSeq(s) == IF s = <<>> THEN 0 ELSE Head(s) + SumSeq(Tail(s))

Indices(s) == [i \in 1..Len(s) |-> i]

\* numpy/pandas round: n/d to the nearest integer, ties to even (n >= 0, d > 0)
RoundHalfEven(n, d) ==
    LET q == n \div d
        r == n % d
    IN  IF 2 * r < d THEN q
        ELSE IF 2 * r > d THEN q + 1
        ELSE IF q % 2 = 0 THEN q ELSE q + 1

(***************************************************************************)
(* grouped_behavior_with_totals, lines 14-110.                             *)
(***************************************************************************)
\* pd.to_datetime(..., errors='coerce')
to_datetime(c) == IF c.k = "time" THEN c ELSE NaT

\* pd.to_numeric(..., errors='coerce')
to_numeric(c) == IF c.k = "num" THEN c ELSE NaN

\* .fillna(0) on a numeric cell
fillna0(c) == IF c.k = "nan" THEN Num(0) ELSE c

\* lines 26-32: the four conversions of one row
ConvertRow(r) ==
    [Time_formatted |-> to_datetime(r.time),
     Duration |-> to_numeric(r.dur),
     EventType |-> to_numeric(r.etype),
     Cumulative |-> fillna0(to_numeric(r.count)).v]

\* faulty variant of KeepRow: the Duration (s) > 0 filter of line 35 left out
KeepRowUnfiltered(r) ==
    /\ r.Time_formatted.k # "nat"
    /\ r.Duration.k # "nan"
    /\ r.EventType.k # "nan"

\* lines 34-35: dropna on the three columns, then Duration (s) > 0
KeepRow(r) ==
    /\ r.Time_formatted.k # "nat"
    /\ r.Duration.k # "nan"
    /\ r.EventType.k # "nan"
    /\ r.Duration.v > 0

\* lines 26-35: the cleaned frame, rows in their original order
CleanRows(rows) ==
    SelectSeq([i \in 1..Len(rows) |-> ConvertRow(rows[i])], KeepRow)

\* faulty variant of Event_Group: groups by the value of Event Type, as a
\* groupby('Event Type') would, not by its changes
EventGroupByValue(df, i) ==
    Cardinality({df[j].EventType.v : j \in 1..i})

\* line 37: (Event Type != Event Type.shift()).cumsum(); the first row is
\* compared with NaN and so always starts a group
Event_Group(df, i) ==
    Cardinality({j \in 1..i : j = 1 \/ df[j].EventType.v # df[j - 1].EventType.v})

\* faulty variant of Step_Diff: the clip(lower=0) left out
StepDiffUnclipped(df, i) ==
    IF i = 1 THEN 0 ELSE df[i].Cumulative - df[i - 1].Cumulative

\* line 38: diff().fillna(0).clip(lower=0)
Step_Diff(df, i) ==
    IF i = 1 THEN 0
    ELSE IF df[i].Cumulative - df[i - 1].Cumulative < 0 THEN 0
    ELSE df[i].Cumulative - df[i - 1].Cumulative

\* the rows of one group, as positions of the cleaned frame
GroupIndices(df, g) ==
    SelectSeq(Indices(df), LAMBDA i : Event_Group(df, i) = g)

\* line 40: groupby('Event_Group')['Step_Diff'].sum()
steps_by_group(df, g) ==
    SumSeq([n \in 1..Len(GroupIndices(df, g)) |->
                Step_Diff(df, GroupIndices(df, g)[n])])

\* faulty variant of AggTime: 'last' in place of 'first'
AggTimeLast(df, g) ==
    df[GroupIndices(df, g)[Len(GroupIndices(df, g))]].Time_formatted.v

\* line 43: 'Time_formatted': 'first'
AggTime(df, g) == df[GroupIndices(df, g)[1]].Time_formatted.v

\* line 44: 'Duration (s)': 'sum'
AggDuration(df, g) ==
    SumSeq([n \in 1..Len(GroupIndices(df, g)) |->
                df[GroupIndices(df, g)[n]].Duration.v])

\* line 45: 'Event Type': 'first'
AggEventType(df, g) == df[GroupIndices(df, g)[1]].EventType.v

\* line 51: (Duration (s) / 60).round(3), in thousandths of a minute
Minutes(dur) == RoundHalfEven(dur * 1000, 60 * 100)

\* line 54: Doubled Steps / Minutes as pandas divides: x/0 is inf, 0/0 is NaN;
\* a finite quotient is carried in hundredths, as the .round(2) of line 55 leaves it
Divide(doubled, minutes) ==
    IF minutes = 0
    THEN IF doubled = 0 THEN NaN ELSE Inf
    ELSE Num(RoundHalfEven(doubled * 1000 * 100, minutes))

\* faulty variant of StepsPerMinute: the replace of inf left out
StepsPerMinuteKeepInf(doubled, minutes) ==
    fillna0(Divide(doubled, minutes))

\* lines 53-55: .replace([inf, -inf], 0).fillna(0).round(2), in hundredths
StepsPerMinute(doubled, minutes) ==
    LET q == Divide(doubled, minutes)
        replaced == IF q.k = "inf" THEN Num(0) ELSE q
    IN  fillna0(replaced)

\* Python's float comparisons: inf is above every number, NaN compares False
FloatLess(x, n) == x.k = "num" /\ x.v < n
FloatAtLeast(x, n) == x.k = "inf" \/ (x.k = "num" /\ x.v >= n)
FloatAtMost(x, n) == x.k = "num" /\ x.v <= n

\* line 58: strftime('%d/%m/%Y %H:%M:%S'): the calendar day and the time of day
strftime(ms) ==
    LET s == ms \div 1000
    IN  [day |-> s \div 86400,
         H |-> (s % 86400) \div 3600,
         M |-> (s % 3600) \div 60,
         S |-> s % 60]

\* line 59: astype('int64') // 10**9
UnixTimestamp(ms) == ms \div 1000

\* faulty variant of behaviour_label: <= in the LIPA test
behaviour_label_strict(etype, spm, lipa, mpa) ==
    IF etype = 0 THEN "SED"
    ELSE IF etype = 1 THEN "STAND"
    ELSE IF etype = 2
         THEN IF FloatAtMost(spm, lipa * 100) THEN "LIPA"
              ELSE IF FloatAtLeast(spm, lipa * 100) /\ FloatAtMost(spm, mpa * 100)
                   THEN "MPA"
              ELSE "VPA"
    ELSE "UNKNOWN"

\* lines 64-77
behaviour_label(etype, spm, lipa, mpa) ==
    IF etype = 0 THEN "SED"
    ELSE IF etype = 1 THEN "STAND"
    ELSE IF etype = 2
         THEN IF FloatLess(spm, lipa * 100) THEN "LIPA"
              ELSE IF FloatAtLeast(spm, lipa * 100) /\ FloatAtMost(spm, mpa * 100)
                   THEN "MPA"
              ELSE "VPA"
    ELSE "UNKNOWN"

\* lines 84-93
activity_category(etype, spm, lipa, mpa) ==
    IF etype # 2 THEN ""
    ELSE IF FloatLess(spm, lipa * 100) THEN "LPA"
    ELSE IF FloatAtLeast(spm, lipa * 100) /\ FloatAtMost(spm, mpa * 100) THEN "MIVA"
    ELSE "HPA"

\* lines 42-110: one row of result_df, for group g of the cleaned frame
Interval(df, g, lipa, mpa) ==
    LET steps == steps_by_group(df, g)
        doubled == steps * 2
        dur == AggDuration(df, g)
        minutes == Minutes(dur)
        spm == StepsPerMinute(doubled, minutes)
        etype == AggEventType(df, g)
    IN  [Time |-> strftime(AggTime(df, g)),
         UnixTimestamp |-> UnixTimestamp(AggTime(df, g)),
         EventDuration |-> dur,
         Behaviour |-> behaviour_label(etype, spm, lipa, mpa),
         Steps |-> steps,
         DoubledSteps |-> doubled,
         Minutes |-> minutes,
         StepsPerMinute |-> spm,
         ActivityCategory |-> activity_category(etype, spm, lipa, mpa)]

NumGroups(df) == IF df = <<>> THEN 0 ELSE Event_Group(df, Len(df))

Raised(err, msg) == [kind |-> "error", err |-> err, msg |-> msg, table |-> <<>>]
Returned(table) == [kind |-> "ok", err |-> "", msg |-> "", table |-> table]

\* lines 14-110.  A column that is absent raises KeyError at the first line that
\* reads it (26, 27, 28, 30; the rename of line 24 is silent).  On an empty
\* cleaned frame the apply of line 79 gives, by the installed pandas, a DataFrame
\* whose assignment to one column raises ValueError, or an empty Series.
grouped_behavior_with_totals(file, lipa, mpa) ==
    IF "Time(approx)" \notin file.cols THEN Raised("KeyError", "Time_formatted")
    ELSE IF "Duration (s)" \notin file.cols THEN Raised("KeyError", "Duration (s)")
    ELSE IF "Event Type" \notin file.cols THEN Raised("KeyError", "Event Type")
    ELSE IF "Cumulative Step Count" \notin file.cols
         THEN Raised("KeyError", "Cumulative Step Count")
    ELSE LET df == CleanRows(file.rows)
         IN  IF df = <<>> /\ legacy_apply
             THEN Raised("ValueError", "Behaviour")
             ELSE Returned([g \in 1..NumGroups(df) |-> Interval(df, g, lipa, mpa)])

(***************************************************************************)
(* Inputs of the classifier.                                               *)
(***************************************************************************)
\* rows that survive cleaning: 60 s or 0.02 s long, of every event type, with
\* step counts that rise, fall and fail to parse
GoodRows ==
    {Row(Stamp(1500), Num(6000), Num(2), Num(0)),
     Row(Stamp(90061250), Num(6000), Num(2), Num(50)),
     Row(Stamp(61999), Num(6000), Num(2), Num(65)),
     Row(Stamp(3600000), Num(2), Num(2), Num(50)),
     Row(Stamp(-1), Num(6000), Num(0), Num(50)),
     Row(Stamp(86400000), Num(2), Num(0), Num(0)),
     Row(Stamp(7200500), Num(6000), Num(1), Num(65)),
     Row(Stamp(172800000), Num(6000), Num(3), Text),
     Row(Stamp(59000), Num(6000), Num(2), Text)}

\* rows that cleaning drops, one for each reason
BadRows ==
    {Row(Text, Num(6000), Num(2), Num(500)),
     Row(Stamp(1000), Text, Num(0), Num(500)),
     Row(Stamp(2000), Num(0), Num(2), Num(500)),
     Row(Stamp(3000), Num(-6000), Num(0), Num(500)),
     Row(Stamp(4000), Num(6000), Text, Num(500))}

RowAlphabet == GoodRows \cup BadRows

SeqsUpTo(S, n) == UNION {[1..m -> S] : m \in 0..n}

\* a file with every required column and up to MaxRows rows, or a file that
\* lacks one required column
InputFiles ==
    {[cols |-> RequiredColumns, rows |-> s] : s \in SeqsUpTo(RowAlphabet, MaxRows)}
    \cup
    {[cols |-> RequiredColumns \ {c}, rows |-> s] :
        c \in RequiredColumns, s \in SeqsUpTo(RowAlphabet, MaxBadHeaderRows)}

\* threshold pairs the sidebar lets through
ThresholdPairs == {<<DefaultLipa, DefaultMpa>>, <<0, 30>>}

NoFile == [cols |-> {}, rows |-> <<>>]
NoResult == [kind |-> "none", err |-> "", msg |-> "", table |-> <<>>]
NoUpload == [present |-> FALSE, walk |-> <<>>]
NoReport == [success |-> 0, failed |-> 0, shown |-> <<>>, download |-> <<>>]

BatchIdle ==
    /\ uploaded_zip = NoUpload
    /\ next_file = 0
    /\ processed_files = 0
    /\ errors = <<>>
    /\ out_zip = <<>>
    /\ calls = <<>>
    /\ report = NoReport

(***************************************************************************)
(* Specification of one call of the classifier on a drawn input.           *)
(***************************************************************************)
Init ==
    /\ \E p \in ThresholdPairs : lipa_max = p[1] /\ mpa_max = p[2]
    /\ legacy_apply \in BOOLEAN
    /\ input_file \in InputFiles
    /\ result = NoResult
    /\ BatchIdle
    /\ pc = "call"

Classify ==
    /\ pc = "call"
    /\ result' = grouped_behavior_with_totals(input_file, lipa_max, mpa_max)
    /\ pc' = "returned"
    /\ UNCHANGED <<lipa_max, mpa_max, legacy_apply, input_file, uploaded_zip,
                   next_file, processed_files, errors, out_zip, calls, report>>

Next == Classify

Spec == Init /\ [][Next]_vars

(***************************************************************************)
(* What the claims speak of, computed from the raw rows alone.             *)
(***************************************************************************)
ValidRaw(r) ==
    /\ r.time.k = "time"
    /\ r.dur.k = "num" /\ r.dur.v > 0
    /\ r.etype.k = "num"

Cleaned == SelectSeq(input_file.rows, ValidRaw)

CountOf(r) == IF r.count.k = "num" THEN r.count.v ELSE 0

\* the maximal runs of equal event type of s[1..i], as sequences of positions
RECURSIVE SplitRuns(_, _)
SplitRuns(s, i) ==
    IF i = 0 THEN <<>>
    ELSE LET prev == SplitRuns(s, i - 1)
         IN  IF i > 1 /\ s[i].etype.v = s[i - 1].etype.v
             THEN [prev EXCEPT ![Len(prev)] = Append(@, i)]
             ELSE Append(prev, <<i>>)

Runs == SplitRuns(Cleaned, Len(Cleaned))

Delta(s, i) ==
    IF i = 1 THEN 0
    ELSE IF CountOf(s[i]) > CountOf(s[i - 1])
         THEN CountOf(s[i]) - CountOf(s[i - 1]) ELSE 0

RunSteps(run) == SumSeq([n \in 1..Len(run) |-> Delta(Cleaned, run[n])])
RunDuration(run) == SumSeq([n \in 1..Len(run) |-> Cleaned[run[n]].dur.v])
RunType(run) == Cleaned[run[1]].etype.v

ReturnedTable == pc = "returned" /\ result.kind = "ok"

(***************************************************************************)
(* Claims about the classifier, checked under Spec.                        *)
(***************************************************************************)
\* the event types a Behaviour label can stand for
LabelFits(label, etype) ==
    IF etype = 0 THEN label = "SED"
    ELSE IF etype = 1 THEN label = "STAND"
    ELSE IF etype = 2 THEN label \in {"LIPA", "MPA", "VPA"}
    ELSE label = "UNKNOWN"

\* C1: a returned table has exactly one interval per maximal run of equal
\* Event Type of the cleaned rows: the k-th group of the code is the k-th run
\* (it starts at the first row and at every change of Event Type), adjacent
\* runs differ in Event Type, the k-th interval carries a label of the k-th
\* run's type, and the runs' row counts add up to the number of cleaned rows.
C1_Grouping ==
    ReturnedTable =>
        /\ Len(result.table) = Len(Runs)
        /\ Len(CleanRows(input_file.rows)) = Len(Cleaned)
        /\ \A k \in 1..Len(Runs) :
              /\ GroupIndices(CleanRows(input_file.rows), k) = Runs[k]
              /\ LabelFits(result.table[k].Behaviour, RunType(Runs[k]))
              /\ k > 1 => RunType(Runs[k]) # RunType(Runs[k - 1])
        /\ SumSeq([k \in 1..Len(Runs) |->
                      Len(GroupIndices(CleanRows(input_file.rows), k))])
               = Len(Cleaned)

\* C1 witness: three raw rows, all of which survive cleaning, returned as two
\* intervals: a run of two rows and a run of one
C1_Witness ==
    /\ ReturnedTable
    /\ Len(result.table) = 2
    /\ Len(Cleaned) = 3
    /\ Len(input_file.rows) = 3

\* C2: an interval of Event Type 2 is LIPA/LPA strictly below lipa_max, MPA/MIVA
\* from lipa_max to mpa_max with both bounds included, and VPA/HPA strictly
\* above mpa_max; type 0 is SED, type 1 STAND, any other type UNKNOWN, each with
\* an empty Activity Category.
C2_Classification ==
    ReturnedTable =>
        \A k \in 1..Len(result.table) :
            LET iv == result.table[k]
                spm == iv.StepsPerMinute.v
                etype == RunType(Runs[k])
            IN  /\ etype = 2 /\ spm < lipa_max * 100 =>
                      iv.Behaviour = "LIPA" /\ iv.ActivityCategory = "LPA"
                /\ etype = 2 /\ spm >= lipa_max * 100 /\ spm <= mpa_max * 100 =>
                      iv.Behaviour = "MPA" /\ iv.ActivityCategory = "MIVA"
                /\ etype = 2 /\ spm > mpa_max * 100 =>
                      iv.Behaviour = "VPA" /\ iv.ActivityCategory = "HPA"
                /\ etype = 0 => iv.Behaviour = "SED" /\ iv.ActivityCategory = ""
                /\ etype = 1 => iv.Behaviour = "STAND" /\ iv.ActivityCategory = ""
                /\ etype \notin {0, 1, 2} =>
                      iv.Behaviour = "UNKNOWN" /\ iv.ActivityCategory = ""

\* C2 witness: a type-2 interval whose rate is exactly lipa_max, with lipa_max > 0
C2_Witness ==
    /\ ReturnedTable
    /\ lipa_max > 0
    /\ \E k \in 1..Len(result.table) :
          /\ RunType(Runs[k]) = 2
          /\ result.table[k].StepsPerMinute.v = lipa_max * 100
          /\ result.table[k].Behaviour = "MPA"

\* C6: each interval's Steps is the sum, over the rows of its run, of the step
\* count's rise from the immediately preceding cleaned row (0 for the first row
\* and for a fall, an unparsable count read as 0), whichever run that row is in;
\* no per-row difference of the code is negative; Doubled Steps is twice Steps.
C6_StepDeltas ==
    ReturnedTable =>
        /\ \A i \in 1..Len(Cleaned) :
              /\ Step_Diff(CleanRows(input_file.rows), i) >= 0
              /\ Step_Diff(CleanRows(input_file.rows), i) = Delta(Cleaned, i)
        /\ \A k \in 1..Len(result.table) :
              /\ result.table[k].Steps = RunSteps(Runs[k])
              /\ result.table[k].DoubledSteps = 2 * result.table[k].Steps

\* C6 witness: the count falls between two cleaned rows, and a later run's
\* first row rises above the last row of the run before it
C6_Witness ==
    /\ ReturnedTable
    /\ \E i \in 2..Len(Cleaned) : CountOf(Cleaned[i]) < CountOf(Cleaned[i - 1])
    /\ \E k \in 2..Len(result.table) :
          /\ Delta(Cleaned, Runs[k][1]) > 0
          /\ result.table[k].Steps > 0

\* the raw rows with the rows that fail cleaning taken out
WithoutBadRows == [input_file EXCEPT !.rows = Cleaned]

\* C7: a row with a non-positive or unparsable duration, an unparsable timestamp
\* or an unparsable event type is dropped before grouping and differencing: the
\* returned table is the table of the file without those rows, the durations
\* of the intervals add up to the durations of the remaining rows, and every
\* interval has a positive duration.
C7_RowDrop ==
    ReturnedTable =>
        /\ result = grouped_behavior_with_totals(WithoutBadRows, lipa_max, mpa_max)
        /\ SumSeq([k \in 1..Len(result.table) |-> result.table[k].EventDuration])
               = SumSeq([i \in 1..Len(Cleaned) |-> Cleaned[i].dur.v])
        /\ SumSeq([k \in 1..Len(result.table) |-> result.table[k].Steps])
               = SumSeq([i \in 1..Len(Cleaned) |-> Delta(Cleaned, i)])
        /\ \A k \in 1..Len(result.table) : result.table[k].EventDuration > 0

\* C7 witness: a dropped row of another type between two rows of one type,
\* which end in one interval
C7_Witness ==
    /\ ReturnedTable
    /\ Len(input_file.rows) = 3
    /\ ValidRaw(input_file.rows[1])
    /\ ~ValidRaw(input_file.rows[2])
    /\ ValidRaw(input_file.rows[3])
    /\ input_file.rows[2].etype # input_file.rows[1].etype
    /\ input_file.rows[2].dur = Num(0)
    /\ Len(result.table) = 1

\* C8: the k-th interval is that of the k-th run, in input order: its Time and
\* Unix Timestamp are those of the run's first row, its Event Duration (s) the
\* sum of the run's durations, and the intervals' durations add up to the
\* total duration of the cleaned rows.
C8_Aggregates ==
    ReturnedTable =>
        /\ Len(result.table) = Len(Runs)
        /\ \A k \in 1..Len(result.table) :
              LET first == Cleaned[Runs[k][1]]
              IN  /\ result.table[k].Time = strftime(first.time.v)
                  /\ result.table[k].UnixTimestamp = first.time.v \div 1000
                  /\ result.table[k].EventDuration = RunDuration(Runs[k])
        /\ SumSeq([k \in 1..Len(result.table) |-> result.table[k].EventDuration])
               = SumSeq([i \in 1..Len(Cleaned) |-> Cleaned[i].dur.v])

\* C8 witness: two intervals, the first a run of two rows with different
\* timestamps, the later row being the earlier in time
C8_Witness ==
    /\ ReturnedTable
    /\ Len(result.table) = 2
    /\ Len(Runs[1]) = 2
    /\ Cleaned[2].time.v < Cleaned[1].time.v
    /\ result.table[1].EventDuration = 12000

\* C9: Steps per Minute is a finite number >= 0; Minutes is duration/60 to the
\* nearest thousandth; with Minutes 0 the rate is 0, also for a positive
\* duration and steps taken; otherwise it is Doubled Steps / Minutes to the
\* nearest hundredth.
C9_StepsPerMinute ==
    ReturnedTable =>
        \A k \in 1..Len(result.table) :
            LET iv == result.table[k]
                m == iv.Minutes
                d == iv.EventDuration * 1000 - m * 6000
                e == iv.DoubledSteps * 100000 - iv.StepsPerMinute.v * m
            IN  /\ iv.StepsPerMinute.k = "num"
                /\ iv.StepsPerMinute.v >= 0
                /\ m >= 0
                /\ 2 * d <= 6000 /\ 2 * d >= -6000
                /\ m = 0 => iv.StepsPerMinute.v = 0
                /\ m > 0 => 2 * e <= m /\ 2 * e >= -m

\* C9 witness: a run of positive duration too short for non-zero Minutes, with
\* steps taken in it
C9_Witness ==
    /\ ReturnedTable
    /\ \E k \in 1..Len(result.table) :
          /\ result.table[k].EventDuration > 0
          /\ result.table[k].Minutes = 0
          /\ result.table[k].DoubledSteps > 0
          /\ result.table[k].StepsPerMinute = Num(0)

\* the input lacks a required column, or no row survives cleaning
Malformed ==
    \/ input_file.cols # RequiredColumns
    \/ Cleaned = <<>>

\* C4: for an input that lacks a required column or has no row left after
\* cleaning, the call raises and returns no table.
C4_MalformedRaises ==
    pc = "returned" /\ Malformed => result.kind = "error"

(***************************************************************************)
(* The Streamlit script, lines 314-418: sidebar, upload, batch loop.       *)
(***************************************************************************)
FileName(stem, ext) == [stem |-> stem, ext |-> ext]

\* str.lower() on the extensions that occur
Lower(ext) == IF ext = ".CSV" THEN ".csv" ELSE ext

\* line 379: file.lower().endswith(".csv")
IsCsv(file) == Lower(file.ext) = ".csv"

\* the example of the specification: 10 s and 20 s of stepping, 5 s sedentary
ExampleFile ==
    [cols |-> RequiredColumns,
     rows |-> <<Row(Stamp(0), Num(1000), Num(2), Num(0)),
                Row(Stamp(10000), Num(2000), Num(2), Num(5)),
                Row(Stamp(30000), Num(500), Num(0), Num(5))>>]

NoEventTypeFile ==
    [cols |-> RequiredColumns \ {"Event Type"},
     rows |-> <<Row(Stamp(0), Num(1000), Num(2), Num(0))>>]

AllDroppedFile ==
    [cols |-> RequiredColumns,
     rows |-> <<Row(Stamp(0), Num(0), Num(2), Num(5))>>]

GoodEntry ==
    [root |-> "T1/ControlGroup", file |-> FileName("p1", ".csv"),
     content |-> ExampleFile]
BadEntry ==
    [root |-> "T1/ExperimentalGroup", file |-> FileName("p2", ".CSV"),
     content |-> NoEventTypeFile]
EmptyEntry ==
    [root |-> "T2/ControlGroup", file |-> FileName("p3", ".csv"),
     content |-> AllDroppedFile]
OtherEntry ==
    [root |-> ".", file |-> FileName("study", ".zip"), content |-> NoFile]

WalkEntries == {GoodEntry, BadEntry, EmptyEntry, OtherEntry}

BadRun(n) == [i \in 1..n |-> BadEntry]

\* what os.walk yields for the uploaded archive: any short list of files, or a
\* long run of files that fail followed by at most one more file
Archives ==
    SeqsUpTo(WalkEntries, MaxFiles)
    \cup {BadRun(n) \o s : n \in 1..MaxBadRun, s \in SeqsUpTo(WalkEntries, 1)}

\* numbers a user may type into the sidebar
ThresholdEntries == {-1, 0, 1, DefaultLipa, DefaultMpa}

\* st.number_input: the widget lets no value below min_value through
NumberInputAccepts(min_value, v) == v >= min_value

\* faulty variant of MpaMinValue: the + 1 left out
MpaMinValueSame(lipa) == lipa

\* line 324: min_value=int(lipa_max) + 1
MpaMinValue(lipa) == lipa + 1

\* lines 392-394: rel_dir joined with the stem + "_processed.xlsx"
zip_member_path(entry) ==
    [dir |-> entry.root, name |-> FileName(entry.file.stem, "_processed.xlsx")]

BatchState == [processed_files |-> processed_files, errors |-> errors,
               out_zip |-> out_zip, pc |-> pc]

\* faulty variant of LoopBody: no try/except, the exception ends the script
LoopBodyNoCatch(st, entry, res, excel_ok) ==
    IF res.kind = "error" \/ ~excel_ok
    THEN [st EXCEPT !.pc = "crashed"]
    ELSE [st EXCEPT !.out_zip = Append(@, [path |-> zip_member_path(entry),
                                            data |-> res.table]),
                    !.processed_files = @ + 1]

\* faulty variant of LoopBody: processed_files counted before to_excel
LoopBodyCountFirst(st, entry, res, excel_ok) ==
    IF res.kind = "error"
    THEN [st EXCEPT !.errors = Append(@, <<entry.file, res.msg>>)]
    ELSE IF ~excel_ok
    THEN [st EXCEPT !.errors = Append(@, <<entry.file, "to_excel">>),
                    !.processed_files = @ + 1]
    ELSE [st EXCEPT !.out_zip = Append(@, [path |-> zip_member_path(entry),
                                            data |-> res.table]),
                    !.processed_files = @ + 1]

\* lines 381-399, the try of one CSV file: res is what the classifier returned
\* or raised, excel_ok whether to_excel and writestr went through
LoopBody(st, entry, res, excel_ok) ==
    IF res.kind = "error"
    THEN [st EXCEPT !.errors = Append(@, <<entry.file, res.msg>>)]
    ELSE IF ~excel_ok
    THEN [st EXCEPT !.errors = Append(@, <<entry.file, "to_excel">>)]
    ELSE [st EXCEPT !.out_zip = Append(@, [path |-> zip_member_path(entry),
                                            data |-> res.table]),
                    !.processed_files = @ + 1]

\* faulty variant of ErrorsShown: the [:10] left out
ErrorsShownAll(errs) == errs

\* line 405: errors[:10]
ErrorsShown(errs) ==
    SubSeq(errs, 1, IF Len(errs) < ErrCap THEN Len(errs) ELSE ErrCap)

BatchInit ==
    /\ lipa_max = DefaultLipa
    /\ mpa_max = DefaultMpa
    /\ legacy_apply \in BOOLEAN
    /\ input_file = NoFile
    /\ result = NoResult
    /\ BatchIdle
    /\ pc = "idle"

\* a rerun of the script forgets the previous run's loop and its messages
Rerun ==
    /\ next_file' = 0
    /\ processed_files' = 0
    /\ errors' = <<>>
    /\ out_zip' = <<>>
    /\ calls' = <<>>
    /\ report' = NoReport

\* lines 316-327: the user sets the LPA limit; the script reruns, and the MIVA
\* widget, now with another min_value, is built afresh with value=130, which
\* Streamlit refuses with an exception when it is below min_value
SetLipa(v) ==
    /\ pc \in {"idle", "done", "stopped"}
    /\ NumberInputAccepts(0, v)
    /\ v # lipa_max
    /\ lipa_max' = v
    /\ mpa_max' = DefaultMpa
    /\ pc' = IF DefaultMpa < MpaMinValue(v) THEN "stopped" ELSE "idle"
    /\ Rerun
    /\ UNCHANGED <<legacy_apply, input_file, result, uploaded_zip>>

\* lines 322-327: the user sets the MIVA limit
SetMpa(v) ==
    /\ pc \in {"idle", "done"}
    /\ NumberInputAccepts(MpaMinValue(lipa_max), v)
    /\ v # mpa_max
    /\ mpa_max' = v
    /\ pc' = "idle"
    /\ Rerun
    /\ UNCHANGED <<lipa_max, legacy_apply, input_file, result, uploaded_zip>>

\* line 348: the user uploads an archive into the empty uploader
Upload(walk) ==
    /\ pc \in {"idle", "done"}
    /\ ~uploaded_zip.present
    /\ uploaded_zip' = [present |-> TRUE, walk |-> walk]
    /\ pc' = "idle"
    /\ Rerun
    /\ UNCHANGED <<lipa_max, mpa_max, legacy_apply, input_file, result>>

\* line 348: the user removes the uploaded archive
RemoveUpload ==
    /\ pc \in {"idle", "done"}
    /\ uploaded_zip.present
    /\ uploaded_zip' = NoUpload
    /\ pc' = "idle"
    /\ Rerun
    /\ UNCHANGED <<lipa_max, mpa_max, legacy_apply, input_file, result>>

\* lines 356-376: the button, enabled only with an upload, starts the batch
ClickRun ==
    /\ pc \in {"idle", "done"}
    /\ uploaded_zip.present
    /\ next_file' = 1
    /\ processed_files' = 0
    /\ errors' = <<>>
    /\ out_zip' = <<>>
    /\ calls' = <<>>
    /\ report' = NoReport
    /\ pc' = "loop"
    /\ UNCHANGED <<lipa_max, mpa_max, legacy_apply, input_file, result,
                   uploaded_zip>>

\* lines 377-399: one file of the walk
VisitFile ==
    /\ pc = "loop"
    /\ next_file <= Len(uploaded_zip.walk)
    /\ LET entry == uploaded_zip.walk[next_file]
       IN  IF ~IsCsv(entry.file)
           THEN /\ next_file' = next_file + 1
                /\ UNCHANGED <<processed_files, errors, out_zip, calls, pc>>
           ELSE \E excel_ok \in BOOLEAN :
                  LET res == grouped_behavior_with_totals(
                                 entry.content, lipa_max, mpa_max)
                      st == LoopBody(BatchState, entry, res, excel_ok)
                  IN  /\ processed_files' = st.processed_files
                      /\ errors' = st.errors
                      /\ out_zip' = st.out_zip
                      /\ pc' = st.pc
                      /\ next_file' = next_file + 1
                      /\ calls' = Append(calls,
                            [root |-> entry.root, file |-> entry.file,
                             lipa |-> lipa_max, mpa |-> mpa_max,
                             outcome |-> IF res.kind = "error" THEN "raised"
                                         ELSE IF excel_ok THEN "ok"
                                         ELSE "excel_raised"])
    /\ UNCHANGED <<lipa_max, mpa_max, legacy_apply, input_file, result,
                   uploaded_zip, report>>

\* lines 401-418: the walk is over: success message, warnings, download button
Finish ==
    /\ pc = "loop"
    /\ next_file > Len(uploaded_zip.walk)
    /\ report' = [success |-> processed_files, failed |-> Len(errors),
                  shown |-> ErrorsShown(errors), download |-> out_zip]
    /\ pc' = "done"
    /\ UNCHANGED <<lipa_max, mpa_max, legacy_apply, input_file, result,
                   uploaded_zip, next_file, processed_files, errors, out_zip,
                   calls>>

BatchNext ==
    \/ \E v \in ThresholdEntries : SetLipa(v)
    \/ \E v \in ThresholdEntries : SetMpa(v)
    \/ \E walk \in Archives : Upload(walk)
    \/ RemoveUpload
    \/ ClickRun
    \/ VisitFile
    \/ Finish

BatchSpec == BatchInit /\ [][BatchNext]_vars

(***************************************************************************)
(* Claims about the batch driver, checked under BatchSpec.                 *)
(***************************************************************************)
\* a name the walk treats as a CSV file, read off the name itself
NamedCsv(file) == file.ext \in {".csv", ".CSV"}

\* the CSV files among the first n files of the walk, in walk order
CsvVisited(n) ==
    SelectSeq(SubSeq(uploaded_zip.walk, 1, n), LAMBDA e : NamedCsv(e.file))

Visited == IF pc = "done" THEN Len(uploaded_zip.walk) ELSE next_file - 1

FailedCalls == SelectSeq(calls, LAMBDA c : c.outcome # "ok")
GoodCalls == SelectSeq(calls, LAMBDA c : c.outcome = "ok")

C3_Safety ==
    /\ pc \in {"idle", "loop", "done", "stopped"}
    /\ pc = "loop" => next_file \in 1..(Len(uploaded_zip.walk) + 1)
    /\ pc \in {"loop", "done"} =>
          /\ Len(calls) = Len(CsvVisited(Visited))
          /\ \A i \in 1..Len(calls) :
                /\ calls[i].file = CsvVisited(Visited)[i].file
                /\ calls[i].root = CsvVisited(Visited)[i].root
          /\ Len(errors) = Len(FailedCalls)
          /\ \A i \in 1..Len(errors) : errors[i][1] = FailedCalls[i].file
    /\ pc = "done" =>
          /\ report.success = processed_files
          /\ report.download = out_zip

\* every step taken inside the loop either visits the next file of the walk
\* and stays in the loop, whatever that file did, or, the walk being over,
\* shows the success message and the download button
C3_LoopStep ==
    pc = "loop" =>
        \/ /\ next_file <= Len(uploaded_zip.walk)
           /\ next_file' = next_file + 1
           /\ pc' = "loop"
           /\ Len(errors') >= Len(errors)
        \/ /\ next_file > Len(uploaded_zip.walk)
           /\ pc' = "done"
           /\ report'.success = processed_files

\* C3: an exception raised while one CSV file is classified or serialized is
\* recorded in errors under that file's name and does not stop the loop: every
\* CSV file of the walk, also those after a failure, is passed to the
\* classifier; the loop never ends in an exception, each of its steps moves the
\* walk one file on, and after the last file the success message and the
\* download button are reached.
C3_CatchAndContinue == [](C3_Safety) /\ [][C3_LoopStep]_vars

\* C3 witness: a finished batch in which a file failed in the classifier,
\* another in serialization, and a file after both was processed
C3_Witness ==
    /\ pc = "done"
    /\ \E i, j, n \in 1..Len(calls) :
          /\ i < n /\ j < n
          /\ calls[i].outcome = "raised"
          /\ calls[j].outcome = "excel_raised"
          /\ calls[n].outcome = "ok"
    /\ Len(errors) = 2
    /\ errors[1][1] = calls[1].file
    /\ processed_files = 1

\* C5: every call of the classifier gets lipa_max >= 0 and mpa_max > lipa_max;
\* the batch runs only with such a pair, and a sidebar state with
\* mpa_max <= lipa_max stops the script before any file is processed.
C5_ThresholdsValid ==
    /\ \A i \in 1..Len(calls) : calls[i].lipa >= 0 /\ calls[i].mpa > calls[i].lipa
    /\ pc \in {"loop", "done"} => lipa_max >= 0 /\ mpa_max > lipa_max
    /\ mpa_max <= lipa_max => pc = "stopped" /\ calls = <<>> /\ report = NoReport

\* C5 witness: a classifier call with thresholds the user typed, mpa_max being
\* the least value the sidebar lets through
C5_Witness ==
    /\ calls # <<>>
    /\ calls[1].lipa = 0
    /\ calls[1].mpa = 1

\* C10: throughout the loop processed_files + len(errors) is the number of CSV
\* files visited, each counted once, as a success or as a failure; the archive
\* holds one member per success and none for a failure; at the end the success
\* count shown is processed_files, the download is the archive, and the
\* failures shown are the first min(10, len(errors)) errors in order.
C10_Accounting ==
    /\ pc \in {"loop", "done"} =>
          /\ processed_files + Len(errors) = Len(CsvVisited(Visited))
          /\ processed_files = Len(GoodCalls)
          /\ Len(errors) = Len(FailedCalls)
          /\ Len(out_zip) = processed_files
          /\ \A i \in 1..Len(out_zip) :
                /\ out_zip[i].path.dir = GoodCalls[i].root
                /\ out_zip[i].path.name.stem = GoodCalls[i].file.stem
    /\ pc = "done" =>
          /\ report.success = processed_files
          /\ report.download = out_zip
          /\ Len(report.download) = processed_files
          /\ Len(report.shown) =
                (IF Len(errors) < ErrCap THEN Len(errors) ELSE ErrCap)
          /\ \A i \in 1..Len(report.shown) : report.shown[i] = errors[i]

\* C10 witness: a finished batch with more failures than are shown and a
\* success after them
C10_Witness ==
    /\ pc = "done"
    /\ Len(errors) > ErrCap
    /\ Len(report.shown) = ErrCap
    /\ processed_files = 1
    /\ Len(out_zip) = 1

====
